---------------------------- MODULE Spec2Model ----------------------------
(***************************************************************************)
(* A model of graphiti-core (rust/crates/graphiti-core): the in-memory     *)
(* graph store, node persistence, the entity-edge temporal fields, the two *)
(* caches, the LLM client's retry loops and the memoized search.           *)
(*                                                                         *)
(* Option<T> is modelled as a set with at most one element: {} is None and *)
(* {x} is Some(x).  A property map (HashMap<String, QueryParameter>) is a  *)
(* record over the keys the program writes, each field an Option: a key    *)
(* that is not in the map is {}.                                           *)
(***************************************************************************)
EXTENDS Integers, Sequences, FiniteSets, TLC

VARIABLES
    nodes,      \* KuzuDatabase.nodes : id -> NodeData
    edges,      \* KuzuDatabase.edges : id -> EdgeData
    nextId,     \* the next value Uuid::new_v4() hands out (always fresh)
    lastOp,     \* the last store / persistence call and what it returned
    edge,       \* one EntityEdge value: its temporal fields
    mem,        \* MemoryCache.cache : key -> CacheEntry
    disk,       \* DiskCache.db      : key -> CacheEntry
    now,        \* SystemTime::now(), in clock ticks
    lastRead,   \* the last cache read (get / exists) and what it returned
    llm,        \* one OpenAiClient::generate_response call in progress
    retry,      \* one BaseLlmClient::execute_with_retry call in progress
    lastSearch, \* the last GraphitiSearch::search call and what it returned
    call,       \* the last call of a function of its arguments alone: the
                \* function, its arguments and what it returned
    emb,        \* CachedEmbedderClient: the vector last created for each
                \* text, and the last create call
    bulk,       \* one dedupe_nodes_bulk / compress_uuid_map call in progress
    tasks,      \* a create_edge and a delete_node call running concurrently
    expiry,     \* cache reads and a sweep running concurrently with set
    gather      \* the semaphore_gather calls running concurrently

vars == <<nodes, edges, nextId, lastOp, edge, mem, disk, now, lastRead,
          llm, retry, lastSearch, call, emb, bulk, tasks,
                  expiry, gather>>

\* what the actions of one part of the program leave alone
nonStoreVars == <<edge, mem, disk, now, lastRead, llm, retry, lastSearch,
                  call, emb, bulk, tasks,
                  expiry, gather>>
nonEdgeVars  == <<nodes, edges, nextId, lastOp, mem, disk, now, lastRead,
                  llm, retry, lastSearch, call, emb, bulk, tasks,
                  expiry, gather>>
nonCacheVars == <<nodes, edges, nextId, lastOp, edge, llm, retry, lastSearch,
                  call, emb, bulk, tasks,
                  expiry, gather>>
nonLlmVars   == <<nodes, edges, nextId, lastOp, edge, mem, disk, now,
                  lastRead, lastSearch, call, emb, bulk, tasks,
                  expiry, gather>>
nonCallVars  == <<nodes, edges, nextId, lastOp, edge, mem, disk, now,
                  lastRead, llm, retry, lastSearch, emb, bulk, tasks,
                  expiry, gather>>
nonEmbVars   == <<nodes, edges, nextId, lastOp, edge, disk, lastRead, llm,
                  retry, lastSearch, call, bulk, tasks,
                  expiry, gather>>
nonBulkVars  == <<nodes, edges, nextId, lastOp, edge, mem, disk, now,
                  lastRead, llm, retry, lastSearch, call, emb, tasks,
                  expiry, gather>>
nonTasksVars == <<lastOp, edge, mem, disk, now, lastRead, llm, retry,
                  lastSearch, call, emb, bulk>>
nonExpiryVars == <<nodes, edges, nextId, lastOp, edge, lastRead, llm, retry,
                   lastSearch, call, emb, bulk>>
nonGatherVars == <<nodes, edges, nextId, lastOp, edge, mem, disk, now,
                   lastRead, llm, retry, lastSearch, call, emb, bulk>>

\* ------------------------------------------------------------------ bounds
MaxIds == 2
MaxTime == 3
MaxTtl == 2

None == {}
Some(x) == {x}
IsSome(o) == o # {}

\* ----------------------------------------------------------- graph store
Groups == {"g1", "g2"}
Ids == 1..MaxIds
\* a uuid a caller brought along (BaseNode::with_uuid) that is no store id
ClientUuid == 0

\* HashMap<String, QueryParameter> over the keys the program writes
PropKeys == {"uuid", "group_id", "name", "summary", "content"}
NoProps == [k \in PropKeys |-> None]

\* node.properties.insert(key, value) for every supplied (key, value)
InsertAll(old, new) ==
    [k \in PropKeys |-> IF IsSome(new[k]) THEN new[k] ELSE old[k]]

NodeData(id, labels, properties) ==
    [id |-> id, labels |-> labels, properties |-> properties]

EdgeData(id, edge_type, source_id, target_id, properties) ==
    [id |-> id, relationship_type |-> edge_type, source_id |-> source_id,
     target_id |-> target_id, properties |-> properties]

\* HashMap::insert / HashMap::remove on a map held as a function
MapInsert(m, k, v) == [x \in DOMAIN m \cup {k} |-> IF x = k THEN v ELSE m[x]]
MapRemove(m, k) == [x \in DOMAIN m \ {k} |-> m[x]]
\* HashMap::retain, given the keys whose entries are kept
MapRetain(m, kept) == [x \in DOMAIN m \cap kept |-> m[x]]

\* the record of the last call on the store: the operation, the id it was
\* about (0 for none), its group argument, its result, and how many nodes
\* and edges it took out of the store
Op(op, id, g, res) ==
    [op |-> op, id |-> id, g |-> g, res |-> res,
     removed |-> Cardinality(DOMAIN nodes \ DOMAIN nodes')
                 + Cardinality(DOMAIN edges \ DOMAIN edges')]

StoreInit ==
    /\ nodes = [x \in {} |-> 0]
    /\ edges = [x \in {} |-> 0]
    /\ nextId = 1
    /\ lastOp = [op |-> "new", id |-> 0, g |-> "", res |-> "Ok", removed |-> 0]

\* property maps a caller of the raw store API supplies
RawProps == {NoProps} \cup {[NoProps EXCEPT !.group_id = Some(g)] : g \in Groups}

\* KuzuDatabase::create_node
create_node(labels, properties) ==
    /\ nextId <= MaxIds
    /\ nodes' = MapInsert(nodes, nextId, NodeData(nextId, labels, properties))
    /\ nextId' = nextId + 1
    /\ UNCHANGED edges

CreateNode ==
    \E properties \in RawProps :
        /\ create_node(<<"Entity">>, properties)
        /\ lastOp' = Op("create_node", nextId, "", "Ok")
        /\ UNCHANGED nonStoreVars

\* an update that stores the properties under an id that is not stored
update_node_upsert(id, properties) ==
    /\ nodes' = MapInsert(nodes, id, NodeData(id, <<"Entity">>, properties))
    /\ UNCHANGED <<edges, nextId>>

\* KuzuDatabase::update_node
update_node(id, properties) ==
    IF id \in DOMAIN nodes
    THEN /\ nodes' = [nodes EXCEPT ![id].properties = InsertAll(@, properties)]
         /\ UNCHANGED <<edges, nextId>>
    ELSE UNCHANGED <<nodes, edges, nextId>>

UpdateNode ==
    \E id \in Ids, properties \in RawProps \ {NoProps} :
        /\ update_node(id, properties)
        /\ lastOp' = Op("update_node", id, "",
                        IF id \in DOMAIN nodes THEN "Ok" ELSE "NotFound")
        /\ UNCHANGED nonStoreVars

\* KuzuDatabase::delete_node: the node, then every edge connected to it
delete_node(id) ==
    IF id \in DOMAIN nodes
    THEN /\ nodes' = MapRemove(nodes, id)
         /\ edges' = MapRetain(edges,
                        {e \in DOMAIN edges : /\ edges[e].source_id # id
                                              /\ edges[e].target_id # id})
         /\ UNCHANGED nextId
    ELSE UNCHANGED <<nodes, edges, nextId>>

DeleteNode ==
    \E id \in Ids :
        /\ delete_node(id)
        /\ lastOp' = Op("delete_node", id, "",
                        IF id \in DOMAIN nodes THEN "Ok" ELSE "NotFound")
        /\ UNCHANGED nonStoreVars

\* KuzuDatabase::create_edge
create_edge(source_id, target_id, edge_type, properties) ==
    IF source_id \in DOMAIN nodes /\ target_id \in DOMAIN nodes
    THEN /\ nextId <= MaxIds
         /\ edges' = MapInsert(edges, nextId,
                EdgeData(nextId, edge_type, source_id, target_id, properties))
         /\ nextId' = nextId + 1
         /\ UNCHANGED nodes
    ELSE UNCHANGED <<nodes, edges, nextId>>

CreateEdge ==
    \E source_id \in Ids, target_id \in Ids, properties \in RawProps :
        /\ create_edge(source_id, target_id, "ENTITY_EDGE", properties)
        /\ lastOp' =
             IF source_id \in DOMAIN nodes /\ target_id \in DOMAIN nodes
             THEN Op("create_edge", nextId, "", "Ok")
             ELSE Op("create_edge", 0, "", "NotFound")
        /\ UNCHANGED nonStoreVars

\* KuzuDatabase::update_edge
update_edge(id, properties) ==
    IF id \in DOMAIN edges
    THEN /\ edges' = [edges EXCEPT ![id].properties = InsertAll(@, properties)]
         /\ UNCHANGED <<nodes, nextId>>
    ELSE UNCHANGED <<nodes, edges, nextId>>

UpdateEdge ==
    \E id \in Ids, properties \in RawProps \ {NoProps} :
        /\ update_edge(id, properties)
        /\ lastOp' = Op("update_edge", id, "",
                        IF id \in DOMAIN edges THEN "Ok" ELSE "NotFound")
        /\ UNCHANGED nonStoreVars

\* KuzuDatabase::delete_edge
delete_edge(id) ==
    IF id \in DOMAIN edges
    THEN /\ edges' = MapRemove(edges, id)
         /\ UNCHANGED <<nodes, nextId>>
    ELSE UNCHANGED <<nodes, edges, nextId>>

DeleteEdge ==
    \E id \in Ids :
        /\ delete_edge(id)
        /\ lastOp' = Op("delete_edge", id, "",
                        IF id \in DOMAIN edges THEN "Ok" ELSE "NotFound")
        /\ UNCHANGED nonStoreVars

\* KuzuDatabase::clear_database
ClearDatabase ==
    /\ nodes' = [x \in {} |-> 0]
    /\ edges' = [x \in {} |-> 0]
    /\ UNCHANGED nextId
    /\ lastOp' = Op("clear_database", 0, "", "Ok")
    /\ UNCHANGED nonStoreVars

\* the filter of delete_by_group_id: properties.get("group_id") is the
\* string group_id
HasGroup(item, group_id) == item.properties.group_id = Some(group_id)

\* the nodes delete_by_group_id leaves
NodesAfterGroupDelete(ns, group_id) ==
    MapRetain(ns, {n \in DOMAIN ns : ~HasGroup(ns[n], group_id)})

\* a slip in the retain predicate: == where the code has !=
EdgesAfterGroupDeleteKeepsGroup(es, group_id) ==
    MapRetain(es, {e \in DOMAIN es : HasGroup(es[e], group_id)})

\* the edges delete_by_group_id leaves: edges.retain(group_id != g)
EdgesAfterGroupDelete(es, group_id) ==
    MapRetain(es, {e \in DOMAIN es : ~HasGroup(es[e], group_id)})

\* KuzuDatabase::delete_by_group_id (and BaseNode::delete_by_group_id, which
\* forwards to it)
delete_by_group_id(group_id) ==
    /\ nodes' = NodesAfterGroupDelete(nodes, group_id)
    /\ edges' = EdgesAfterGroupDelete(edges, group_id)
    /\ UNCHANGED nextId

DeleteByGroupId ==
    \E group_id \in Groups :
        /\ delete_by_group_id(group_id)
        /\ lastOp' = Op("delete_by_group_id", 0, group_id, "Ok")
        /\ UNCHANGED nonStoreVars

\* the property maps EntityNode::save and EpisodicNode::save build
EntityNodeProps(uuid, name, group_id) ==
    [NoProps EXCEPT !.uuid = Some(uuid), !.name = Some(name),
                    !.group_id = Some(group_id), !.summary = Some("s")]

EpisodicNodeProps(uuid, name, group_id) ==
    [NoProps EXCEPT !.uuid = Some(uuid), !.name = Some(name),
                    !.group_id = Some(group_id), !.content = Some("c")]

\* the tail of both save methods: get_node(uuid), then update or create
SaveNode(uuid, labels, properties) ==
    IF uuid \in DOMAIN nodes
    THEN update_node(uuid, properties)
    ELSE create_node(labels, properties)

\* the uuid of the node being saved: one the caller brought, or (with_uuid)
\* the id of a stored node
SaveUuids == {ClientUuid} \cup DOMAIN nodes

\* EntityNode::save
EntityNodeSave ==
    \E uuid \in SaveUuids, group_id \in Groups :
        /\ SaveNode(uuid, <<>>, EntityNodeProps(uuid, "a", group_id))
        /\ lastOp' = Op("save", uuid, group_id, "Ok")
        /\ UNCHANGED nonStoreVars

\* EpisodicNode::save
EpisodicNodeSave ==
    \E uuid \in SaveUuids, group_id \in Groups :
        /\ SaveNode(uuid, <<>>, EpisodicNodeProps(uuid, "a", group_id))
        /\ lastOp' = Op("save", uuid, group_id, "Ok")
        /\ UNCHANGED nonStoreVars

\* Graphiti::add_episode: builds the episodic node (BaseNode::new draws a
\* fresh uuid) and returns it; extraction, deduplication and the write to
\* the database are disabled in the source
AddEpisode ==
    \E group_id \in Groups :
        /\ nextId <= MaxIds
        /\ nextId' = nextId + 1
        /\ UNCHANGED <<nodes, edges>>
        /\ lastOp' = Op("add_episode", nextId, group_id, "Ok")
        /\ UNCHANGED nonStoreVars

StoreNext ==
    \/ CreateNode
    \/ UpdateNode
    \/ DeleteNode
    \/ CreateEdge
    \/ UpdateEdge
    \/ DeleteEdge
    \/ ClearDatabase
    \/ DeleteByGroupId
    \/ EntityNodeSave
    \/ EpisodicNodeSave
    \/ AddEpisode

\* ------------------------------------------------- entity edge (temporal)
Times == 0..MaxTime

\* EntityEdge::new: expired_at and invalid_at start as None
EntityEdgeNew(valid_at) ==
    [valid_at |-> Some(valid_at), invalid_at |-> None, expired_at |-> None]

EdgeInit == edge = EntityEdgeNew(0)

EdgeNew ==
    \E valid_at \in Times :
        /\ edge' = EntityEdgeNew(valid_at)
        /\ UNCHANGED nonEdgeVars

\* EntityEdge::with_expired_at
with_expired_at(e, expired_at) == [e EXCEPT !.expired_at = Some(expired_at)]

WithExpiredAt ==
    \E expired_at \in Times :
        /\ edge' = with_expired_at(edge, expired_at)
        /\ UNCHANGED nonEdgeVars

\* EntityEdge::with_invalid_at
with_invalid_at(e, invalid_at) == [e EXCEPT !.invalid_at = Some(invalid_at)]

WithInvalidAt ==
    \E invalid_at \in Times :
        /\ edge' = with_invalid_at(edge, invalid_at)
        /\ UNCHANGED nonEdgeVars

\* update_edge_temporal_bounds: both bounds are overwritten by the
\* arguments as given; expired_at is set when invalid_at is Some
update_edge_temporal_bounds(e, valid_at, invalid_at, current_time) ==
    [valid_at   |-> valid_at,
     invalid_at |-> invalid_at,
     expired_at |-> IF IsSome(invalid_at) THEN Some(current_time)
                    ELSE e.expired_at]

OptTimes == {None} \cup {Some(t) : t \in Times}

UpdateEdgeTemporalBounds ==
    \E valid_at \in OptTimes, invalid_at \in OptTimes, current_time \in Times :
        /\ edge' = update_edge_temporal_bounds(edge, valid_at, invalid_at,
                                            current_time)
        /\ UNCHANGED nonEdgeVars

EdgeNext ==
    \/ EdgeNew
    \/ WithExpiredAt
    \/ WithInvalidAt
    \/ UpdateEdgeTemporalBounds

\* ------------------------------------------------------------------ caches
CacheKeys == {"k1", "k2"}
Values == {"v1", "v2"}
Ttls == 1..MaxTtl
EmptyMap == [x \in {} |-> 0]

\* memory_cache.rs CacheEntry::new (ttl is always Some in set_with_ttl)
MemEntry(data, ttl, t) == [data |-> data, expires_at |-> Some(t + ttl)]

\* disk_cache.rs CacheEntry::new
DiskEntry(data, ttl, t) ==
    [data |-> data, expires_at |-> Some(t + ttl), created_at |-> t]

\* CacheEntry::is_expired (both backends): now > expires_at
is_expired(entry, t) == \E expires_at \in entry.expires_at : t > expires_at

Read(backend, op, key, present, expired, value, exists) ==
    [backend |-> backend, op |-> op, key |-> key, present |-> present,
     expired |-> expired, value |-> value, exists |-> exists]

CacheInit ==
    /\ mem = EmptyMap
    /\ disk = EmptyMap
    /\ now = 0
    /\ lastRead = Read("", "new", "", FALSE, FALSE, None, FALSE)

\* the clock advances
Tick ==
    /\ now < MaxTime
    /\ now' = now + 1
    /\ UNCHANGED <<mem, disk, lastRead>>
    /\ UNCHANGED nonCacheVars

\* what Cache::get returns for a map of entries: the data of an entry that
\* is there and not expired
GetValue(m, key, t) ==
    IF key \in DOMAIN m /\ ~is_expired(m[key], t) THEN Some(m[key].data)
    ELSE None

\* the map after Cache::get: an expired entry is removed
AfterGet(m, key, t) ==
    IF key \in DOMAIN m /\ is_expired(m[key], t) THEN MapRemove(m, key) ELSE m

\* MemoryCache::get
MemGet ==
    \E key \in CacheKeys :
        /\ mem' = AfterGet(mem, key, now)
        /\ lastRead' = Read("memory", "get", key, key \in DOMAIN mem,
                            key \in DOMAIN mem /\ is_expired(mem[key], now),
                            GetValue(mem, key, now), FALSE)
        /\ UNCHANGED <<disk, now>>
        /\ UNCHANGED nonCacheVars

\* MemoryCache::set / set_with_ttl (set passes config.default_ttl)
MemSet ==
    \E key \in CacheKeys, value \in Values, ttl \in Ttls :
        /\ mem' = MapInsert(mem, key, MemEntry(value, ttl, now))
        /\ UNCHANGED <<disk, now, lastRead>>
        /\ UNCHANGED nonCacheVars

\* MemoryCache::remove
MemRemove ==
    \E key \in CacheKeys :
        /\ mem' = MapRemove(mem, key)
        /\ UNCHANGED <<disk, now, lastRead>>
        /\ UNCHANGED nonCacheVars

\* MemoryCache::clear
MemClear ==
    /\ mem' = EmptyMap
    /\ UNCHANGED <<disk, now, lastRead>>
    /\ UNCHANGED nonCacheVars

\* MemoryCache::exists: self.cache.contains_key(key)
mem_exists(m, key, t) == key \in DOMAIN m

MemExists ==
    \E key \in CacheKeys :
        /\ lastRead' = Read("memory", "exists", key, key \in DOMAIN mem,
                            key \in DOMAIN mem /\ is_expired(mem[key], now),
                            None, mem_exists(mem, key, now))
        /\ UNCHANGED <<mem, disk, now>>
        /\ UNCHANGED nonCacheVars

MemCacheNext ==
    \/ Tick
    \/ MemGet
    \/ MemSet
    \/ MemRemove
    \/ MemClear
    \/ MemExists

\* stored bytes that bincode::deserialize rejects as a CacheEntry
Undecodable == [bytes |-> "undecodable"]

\* CacheEntry::from_bytes: the entry, or None for the Err of bytes that do
\* not deserialize (to_bytes stores the entry as it is)
from_bytes(bytes) == IF "data" \in DOMAIN bytes THEN Some(bytes) ELSE None

\* a key of the database whose bytes from_bytes rejects
IsUndecodable(m, key) == key \in DOMAIN m /\ from_bytes(m[key]) = None

\* a key of the database whose entry decodes and has expired
IsExpiredEntry(m, key, t) ==
    key \in DOMAIN m /\ \E entry \in from_bytes(m[key]) : is_expired(entry, t)

\* a read of the disk cache: error is the Err returned through `?`, misses
\* the number of update_stats_miss calls of the read
DiskRead(op, key, value, exists, error, misses) ==
    [backend |-> "disk", op |-> op, key |-> key,
     present |-> key \in DOMAIN disk,
     expired |-> IsExpiredEntry(disk, key, now),
     undecodable |-> IsUndecodable(disk, key),
     value |-> value, exists |-> exists, error |-> error, misses |-> misses]

\* the database directory is persistent: sled::open finds whatever bytes an
\* earlier writer left under a key
DiskForeignBytes ==
    \E key \in CacheKeys :
        /\ disk' = MapInsert(disk, key, Undecodable)
        /\ UNCHANGED <<mem, now, lastRead>>
        /\ UNCHANGED nonCacheVars

\* DiskCache::get
DiskGet ==
    \E key \in CacheKeys :
        /\ IF IsUndecodable(disk, key)
           THEN /\ disk' = disk
                /\ lastRead' = DiskRead("get", key, None, FALSE, TRUE, 0)
           ELSE /\ disk' = AfterGet(disk, key, now)
                /\ lastRead' = DiskRead("get", key, GetValue(disk, key, now),
                                        FALSE, FALSE,
                                        IF GetValue(disk, key, now) = None
                                        THEN 1 ELSE 0)
        /\ UNCHANGED <<mem, now>>
        /\ UNCHANGED nonCacheVars

\* DiskCache::set / set_with_ttl
DiskSet ==
    \E key \in CacheKeys, value \in Values, ttl \in Ttls :
        /\ disk' = MapInsert(disk, key, DiskEntry(value, ttl, now))
        /\ UNCHANGED <<mem, now, lastRead>>
        /\ UNCHANGED nonCacheVars

\* DiskCache::remove
DiskRemove ==
    \E key \in CacheKeys :
        /\ disk' = MapRemove(disk, key)
        /\ UNCHANGED <<mem, now, lastRead>>
        /\ UNCHANGED nonCacheVars

\* DiskCache::clear
DiskClear ==
    /\ disk' = EmptyMap
    /\ UNCHANGED <<mem, now, lastRead>>
    /\ UNCHANGED nonCacheVars

\* DiskCache::exists: contains_key, then the entry is read and checked
disk_exists(m, key, t) ==
    key \in DOMAIN m /\ ~IsUndecodable(m, key) /\ ~is_expired(m[key], t)

DiskExists ==
    \E key \in CacheKeys :
        /\ lastRead' = DiskRead("exists", key, None,
                                disk_exists(disk, key, now),
                                IsUndecodable(disk, key), 0)
        /\ UNCHANGED <<mem, disk, now>>
        /\ UNCHANGED nonCacheVars

\* DiskCache::cleanup_expired, run by the background task of
\* start_cleanup_task: bytes that do not decode are left alone
DiskCleanupExpired ==
    /\ disk' = MapRetain(disk,
                          {key \in DOMAIN disk :
                               ~IsExpiredEntry(disk, key, now)})
    /\ UNCHANGED <<mem, now, lastRead>>
    /\ UNCHANGED nonCacheVars

DiskCacheNext ==
    \/ Tick
    \/ DiskForeignBytes
    \/ DiskGet
    \/ DiskSet
    \/ DiskRemove
    \/ DiskClear
    \/ DiskExists
    \/ DiskCleanupExpired

\* -------------------------------------------------------------- LLM client
\* OpenAiClient::new: max_retries
MaxRetries == 2
\* execute_with_retry: ExponentialBackoff::from_millis(5000)
\*                        .max_delay(Duration::from_secs(120)).take(4)
BackoffBaseMs == 5000
MaxDelayMs == 120000
RetryTake == 4

\* what one call of generate_response_internal ends in: Ok, or the LlmError
\* it builds (Http: send() failed; RateLimit: status 429; Authentication:
\* another error status or an error body; NetworkError: the body is no
\* JSON; EmptyResponse: no choice or no content; Refusal: refusal is set)
ProviderOutcomes ==
    {"Ok", "Http", "RateLimit", "Authentication", "NetworkError",
     "EmptyResponse", "Refusal"}

Last(seq) == seq[Len(seq)]

Llm(pc, cache_enabled, cached, retry_count, last_error, calls, result) ==
    [pc |-> pc, cache_enabled |-> cache_enabled, cached |-> cached,
     retry_count |-> retry_count, last_error |-> last_error,
     calls |-> calls, result |-> result]

Retry(pc, left, calls, slept, result) ==
    [pc |-> pc, left |-> left, calls |-> calls, slept |-> slept,
     result |-> result]

LlmInit ==
    /\ llm = Llm("idle", FALSE, FALSE, 0, None, <<>>, None)
    /\ retry = Retry("idle", RetryTake, <<>>, <<>>, None)

\* generate_response up to the loop: a cached response is returned without
\* a provider call
GenerateResponseStart ==
    /\ llm.pc \in {"idle", "done"}
    /\ llm' = IF llm.cache_enabled /\ llm.cached
              THEN [llm EXCEPT !.pc = "done", !.retry_count = 0,
                               !.last_error = None, !.calls = <<>>,
                               !.result = Some("Ok")]
              ELSE [llm EXCEPT !.pc = "loop", !.retry_count = 0,
                               !.last_error = None, !.calls = <<>>,
                               !.result = None]
    /\ UNCHANGED retry
    /\ UNCHANGED nonLlmVars

\* what generate_response returns when the provider answers RateLimit or
\* Refusal: Err(last_error.unwrap_or_else(|| LlmError::RateLimit))
NoRetryError(last_error, outcome) ==
    IF IsSome(last_error) THEN last_error ELSE Some("RateLimit")

\* a loop that retries whatever retry_count is
GenerateResponseTurnAgain(l, outcome) ==
    IF outcome = "Ok"
    THEN [l EXCEPT !.pc = "done", !.calls = Append(l.calls, outcome),
                   !.result = Some("Ok")]
    ELSE [l EXCEPT !.calls = Append(l.calls, outcome),
                   !.last_error = Some("EmptyResponse"),
                   !.retry_count = l.retry_count + 1]

\* one turn of the while loop of generate_response, the provider's answer
\* being outcome; past the loop, the last error is returned
GenerateResponseTurn(l, outcome) ==
    LET calls == Append(l.calls, outcome) IN
    IF l.retry_count > MaxRetries
    THEN [l EXCEPT !.pc = "done",
                   !.result = IF IsSome(l.last_error) THEN l.last_error
                              ELSE Some("EmptyResponse")]
    ELSE IF outcome = "Ok"
    THEN [l EXCEPT !.pc = "done", !.calls = calls, !.result = Some("Ok"),
                   !.cached = l.cache_enabled]
    ELSE IF outcome \in {"RateLimit", "Refusal"}
    THEN [l EXCEPT !.pc = "done", !.calls = calls,
                   !.result = NoRetryError(l.last_error, outcome)]
    ELSE IF l.retry_count >= MaxRetries
    THEN [l EXCEPT !.pc = "done", !.calls = calls, !.result = Some(outcome)]
    ELSE [l EXCEPT !.calls = calls, !.last_error = Some("EmptyResponse"),
                   !.retry_count = l.retry_count + 1]

GenerateResponseAttempt ==
    \E outcome \in ProviderOutcomes :
        /\ llm.pc = "loop"
        /\ llm' = GenerateResponseTurn(llm, outcome)
        /\ UNCHANGED retry
        /\ UNCHANGED nonLlmVars

\* the errors an operation handed to execute_with_retry can return
OperationOutcomes == ProviderOutcomes \cup {"Timeout"}

\* retry_condition of execute_with_retry
retry_condition(error) == error \in {"RateLimit", "Http", "Timeout"}

Min(a, b) == IF a < b THEN a ELSE b

\* the n-th delay of the strategy (n >= 1): base^n, capped at max_delay
RECURSIVE BackoffDelay(_)
BackoffDelay(n) ==
    IF n = 1 THEN Min(BackoffBaseMs, MaxDelayMs)
    ELSE Min(BackoffDelay(n - 1) * BackoffBaseMs, MaxDelayMs)

ExecuteWithRetryStart ==
    /\ retry.pc \in {"idle", "done"}
    /\ retry' = Retry("run", RetryTake, <<>>, <<>>, None)
    /\ UNCHANGED llm
    /\ UNCHANGED nonLlmVars

\* RetryIf::spawn: one call of the operation; an error that satisfies the
\* condition is retried after the next delay of the strategy, while the
\* strategy has one
RetryTurn(r, outcome) ==
    LET calls == Append(r.calls, outcome) IN
    IF outcome = "Ok"
    THEN [r EXCEPT !.pc = "done", !.calls = calls, !.result = Some("Ok")]
    ELSE IF retry_condition(outcome) /\ r.left > 0
    THEN [r EXCEPT !.calls = calls, !.left = r.left - 1,
                   !.slept = Append(r.slept,
                                    BackoffDelay(RetryTake - r.left + 1))]
    ELSE [r EXCEPT !.pc = "done", !.calls = calls, !.result = Some(outcome)]

ExecuteWithRetryAttempt ==
    \E outcome \in OperationOutcomes :
        /\ retry.pc = "run"
        /\ retry' = RetryTurn(retry, outcome)
        /\ UNCHANGED llm
        /\ UNCHANGED nonLlmVars

LlmNext ==
    \/ GenerateResponseStart
    \/ GenerateResponseAttempt
    \/ ExecuteWithRetryStart
    \/ ExecuteWithRetryAttempt

\* ------------------------------------------------------------------ search
Queries == {"q"}
\* group_ids: Option<&[String]>, here Some of one group
GroupIdArgs == {Some({g}) : g \in Groups}

\* CacheConfig.default_ttl, in clock ticks
default_ttl == MaxTtl

\* SearchConfig.limit: DEFAULT_SEARCH_LIMIT or 0
DEFAULT_SEARCH_LIMIT == 10
SearchLimits == {0, DEFAULT_SEARCH_LIMIT}

\* the cache keys of search (the limit is what varies in the config) and of
\* search_nodes
SearchKey(query, limit, group_ids) == <<"search", query, limit, group_ids>>
EmbeddingKey(query) == <<"embedding", query>>

\* the group filter of the index queries (build_node_vector_query,
\* fulltext_query): no filter for None, else group_id IN group_ids
InGroups(item, group_ids) ==
    \A gs \in group_ids : \E g \in gs : HasGroup(item, g)

\* the rows the entity index and the episode index return: one per stored
\* node of the kind that passes the group filter
EntityRows(group_ids) ==
    {id \in DOMAIN nodes : /\ IsSome(nodes[id].properties.summary)
                           /\ InGroups(nodes[id], group_ids)}

EpisodeRows(group_ids) ==
    {id \in DOMAIN nodes : /\ IsSome(nodes[id].properties.content)
                           /\ InGroups(nodes[id], group_ids)}

\* all_results.truncate(limit), on the results held as a set
Keep(rows, limit) ==
    IF Cardinality(rows) <= limit THEN rows
    ELSE CHOOSE kept \in SUBSET rows : Cardinality(kept) = limit

\* search with the default search methods: search_nodes by cosine
\* similarity, search_episodes by BM25; edge_similarity_search and
\* community_similarity_search return no rows
SearchResults(group_ids, limit) ==
    [nodes |-> Keep(EntityRows(group_ids), limit), edges |-> {},
     episodes |-> Keep(EpisodeRows(group_ids), limit), communities |-> {}]

NoResults == [nodes |-> {}, edges |-> {}, episodes |-> {}, communities |-> {}]

\* the cache after self.clients.cache.set(key, value)
CacheSet(m, key, value) == MapInsert(m, key, MemEntry(value, default_ttl, now))

\* the cache after the embedding lookup of search_nodes
AfterEmbedding(m, query) ==
    IF IsSome(GetValue(m, EmbeddingKey(query), now))
    THEN m
    ELSE CacheSet(AfterGet(m, EmbeddingKey(query), now), EmbeddingKey(query),
                  <<"vector", query>>)

\* the cache after a search that found nothing memoized under its key
AfterSearchMiss(m, query, limit, group_ids) ==
    CacheSet(AfterEmbedding(AfterGet(m, SearchKey(query, limit, group_ids),
                                     now),
                            query),
             SearchKey(query, limit, group_ids),
             SearchResults(group_ids, limit))

\* the calls of embedder.embed_query in a search that found nothing
\* memoized: search_nodes when the embedding is not in the cache,
\* search_edges and search_communities always
EmbedderCalls(m, query) ==
    (IF IsSome(GetValue(m, EmbeddingKey(query), now)) THEN 0 ELSE 1) + 2

\* the queries sent to the graph driver in such a search: one by
\* node_similarity_search and one by episode_fulltext_search, both of which
\* return early when their limit (limit * 2) is 0
DriverCalls(limit) == IF limit * 2 = 0 THEN 0 ELSE 2

\* the last call on the store was delete_by_group_id of the one group
\* searched
JustDeleted(group_ids) ==
    /\ lastOp.op = "delete_by_group_id"
    /\ group_ids = Some({lastOp.g})

SearchCall(query, limit, group_ids, results, memoized, deleted, embedder, driver) ==
    [query |-> query, limit |-> limit, group_ids |-> group_ids,
     results |-> results, memoized |-> memoized, deleted |-> deleted,
     embedder_calls |-> embedder, driver_calls |-> driver]

SearchInit ==
    lastSearch = SearchCall("", DEFAULT_SEARCH_LIMIT, None, NoResults, FALSE,
                            FALSE, 0, 0)

\* GraphitiSearch::search
Search ==
    \E query \in Queries, limit \in SearchLimits, group_ids \in GroupIdArgs :
        LET hit == GetValue(mem, SearchKey(query, limit, group_ids), now) IN
        /\ mem' = IF IsSome(hit) THEN mem
                  ELSE AfterSearchMiss(mem, query, limit, group_ids)
        /\ lastSearch' =
             IF IsSome(hit)
             THEN SearchCall(query, limit, group_ids, CHOOSE r \in hit : TRUE,
                             TRUE, JustDeleted(group_ids), 0, 0)
             ELSE SearchCall(query, limit, group_ids,
                             SearchResults(group_ids, limit), FALSE,
                             JustDeleted(group_ids),
                             EmbedderCalls(mem, query), DriverCalls(limit))
        /\ UNCHANGED <<nodes, edges, nextId, lastOp, edge, disk, now, lastRead,
                       llm, retry, call, emb, bulk, tasks,
                  expiry, gather>>

\* ------------------------------------------------- ranking of search hits
MaxRows == 2
MaxScore == 2
MaxLimit == 2

\* before any call
CallInit == call = [fn |-> "none"]

\* the rows an index query can return and the scores it gives them
Rows == 1..MaxRows
Scores == 1..MaxScore
Limits == 0..MaxLimit

IsInjective(f) == \A i, j \in DOMAIN f : f[i] = f[j] => i = j

\* what one search method returns for at most limit rows: every row of the
\* index at most once, ORDER BY score DESC
MethodHits(limit) ==
    {h \in UNION {[1..n -> [row : Rows, score : Scores]] :
                     n \in 0..Min(limit, MaxRows)} :
        /\ \A i, j \in DOMAIN h : h[i].row = h[j].row => i = j
        /\ \A i, j \in DOMAIN h : i < j => h[i].score >= h[j].score}

\* node_similarity_search / node_fulltext_search: one SearchResult per row,
\* its item a placeholder built by BaseNode::new, which draws a new uuid;
\* uuids is the uuid drawn for each result
Placeholders(hits, uuids) ==
    [i \in DOMAIN hits |->
        [row |-> hits[i].row, score |-> hits[i].score, uuid |-> uuids[i]]]

\* all_results.sort_by(score descending): a stable sort
InsertByScore(sorted, r) ==
    LET lower == {i \in DOMAIN sorted : sorted[i].score < r.score}
        at == IF lower = {} THEN Len(sorted) + 1
              ELSE CHOOSE i \in lower : \A j \in lower : i <= j
    IN SubSeq(sorted, 1, at - 1) \o <<r>> \o SubSeq(sorted, at, Len(sorted))

RECURSIVE SortByScore(_)
SortByScore(results) ==
    IF results = <<>> THEN <<>>
    ELSE InsertByScore(SortByScore(SubSeq(results, 1, Len(results) - 1)),
                       results[Len(results)])

\* all_results.dedup_by(same uuid): an element is dropped when the element
\* kept just before it has its uuid
RECURSIVE DedupByUuid(_)
DedupByUuid(results) ==
    IF Len(results) <= 1 THEN results
    ELSE LET kept == DedupByUuid(SubSeq(results, 1, Len(results) - 1))
             r == results[Len(results)]
         IN IF kept[Len(kept)].uuid = r.uuid THEN kept ELSE Append(kept, r)

Truncate(results, limit) == SubSeq(results, 1, Min(limit, Len(results)))

\* the tail of search_nodes, search_edges, search_episodes and
\* search_communities
RankResults(all_results, limit) ==
    Truncate(DedupByUuid(SortByScore(all_results)), limit)

\* the search_methods of a NodeSearchConfig (Bfs is skipped by search_nodes)
NodeSearchMethods ==
    {<<"CosimeSimilarity">>, <<"Bm25">>, <<"CosimeSimilarity", "Bm25">>,
     <<"Bm25", "CosimeSimilarity">>}

\* all_results of search_nodes: the results of the methods, in the order of
\* search_methods
AllResults(search_methods, similarity, fulltext) ==
    IF search_methods = <<"CosimeSimilarity">> THEN similarity
    ELSE IF search_methods = <<"Bm25">> THEN fulltext
    ELSE IF search_methods = <<"CosimeSimilarity", "Bm25">>
    THEN similarity \o fulltext
    ELSE fulltext \o similarity

\* GraphitiSearch::search_nodes, the index holding some rows
SearchNodes ==
    /\ call.fn = "none"
    /\ \E search_methods \in NodeSearchMethods, limit \in Limits :
       \E similarity \in MethodHits(limit * 2),
          fulltext \in MethodHits(limit * 2) :
           LET hits == AllResults(search_methods, similarity, fulltext) IN
           \E uuids \in {u \in [DOMAIN hits -> DOMAIN hits] : IsInjective(u)} :
               call' = [fn |-> "search_nodes",
                        search_methods |-> search_methods,
                        limit |-> limit,
                        all_results |-> Placeholders(hits, uuids),
                        out |-> RankResults(Placeholders(hits, uuids), limit)]
    /\ UNCHANGED nonCallVars

\* ------------------------------------------------------- search filters
MaxDate == 1
MaxGroups == 2
MaxPredicates == 2

Dates == 0..MaxDate

\* ComparisonOperator::to_cypher
ComparisonOperators == {"=", "<>", ">", "<", ">=", "<="}

DateFilter == [date : Dates, comparison_operator : ComparisonOperators]

\* Vec<Vec<DateFilter>>: a non-empty list of non-empty lists
DateFilterGroups ==
    LET or_lists == UNION {[1..n -> DateFilter] : n \in 1..MaxPredicates}
    IN UNION {[1..n -> or_lists] : n \in 1..MaxGroups}

\* filter_params after the loops: the parameter named <field>_<j> is
\* inserted for the j-th filter of every list, a later insert replacing an
\* earlier one
FilterParams(date_filters) ==
    LET names == UNION {DOMAIN date_filters[i] : i \in DOMAIN date_filters}
        last(j) == CHOOSE i \in DOMAIN date_filters :
                      /\ j \in DOMAIN date_filters[i]
                      /\ \A k \in DOMAIN date_filters :
                             j \in DOMAIN date_filters[k] => k <= i
    IN [j \in names |-> date_filters[last(j)][j].date]

\* filter_query: the lists joined by OR, the j-th filter of a list being
\* (<field> <operator> $<field>_<j>), joined by AND within the list
FilterQuery(date_filters) ==
    [i \in DOMAIN date_filters |->
        [j \in DOMAIN date_filters[i] |->
            [comparison_operator |-> date_filters[i][j].comparison_operator,
             param |-> j]]]

\* a Cypher comparison
Compare(a, operator, b) ==
    CASE operator = "="  -> a = b
      [] operator = "<>" -> a # b
      [] operator = ">"  -> a > b
      [] operator = "<"  -> a < b
      [] operator = ">=" -> a >= b
      [] operator = "<=" -> a <= b

\* whether the database selects an item whose date is value, for a query
\* and its parameters (AND binds tighter than OR)
Selects(filter_query, filter_params, value) ==
    \E i \in DOMAIN filter_query :
        \A j \in DOMAIN filter_query[i] :
            Compare(value, filter_query[i][j].comparison_operator,
                    filter_params[filter_query[i][j].param])

FilterCall(fn, date_filters, value) ==
    [fn |-> fn, date_filters |-> date_filters, value |-> value,
     selected |-> Selects(FilterQuery(date_filters),
                          FilterParams(date_filters), value)]

\* SearchFilters::edge_search_filter_query with valid_at set, the query run
\* over an edge
EdgeSearchFilterQuery ==
    /\ call.fn = "none"
    /\ \E valid_at \in DateFilterGroups, value \in Dates :
           call' = FilterCall("edge_search_filter_query", valid_at, value)
    /\ UNCHANGED nonCallVars

\* SearchFilters::episode_search_filter_query with created_at set, the query
\* run over an episode
EpisodeSearchFilterQuery ==
    /\ call.fn = "none"
    /\ \E created_at \in DateFilterGroups, value \in Dates :
           call' = FilterCall("episode_search_filter_query", created_at, value)
    /\ UNCHANGED nonCallVars

FilterNext ==
    \/ EdgeSearchFilterQuery
    \/ EpisodeSearchFilterQuery

\* ------------------------------------------------------ full-text queries
MaxQueryChars == 3
MAX_QUERY_LENGTH == 32

\* the characters lucene_sanitize escapes
LuceneReserved ==
    {"+", "-", "&", "|", "!", "(", ")", "{", "}", "[", "]", "^", "\"", "~",
     "*", "?", ":", "\\"}

\* the characters tried: a letter, white space, two reserved characters and
\* one that is neither alphanumeric nor reserved
QueryChars == {"a", " ", "+", "\\", "/"}

IsAlphanumeric(c) == c \in {"a", "g", "1"}
IsWhitespace(c) == c = " "

\* n further words, each after a space
RECURSIVE Words(_)
Words(n) == IF n = 0 THEN <<>> ELSE <<" ", "a">> \o Words(n - 1)

\* strings of up to MaxQueryChars characters, possibly followed by enough
\* words to come near MAX_QUERY_LENGTH
QueryStrings ==
    {q \o Words(n) :
        q \in UNION {[1..k -> QueryChars] : k \in 0..MaxQueryChars},
        n \in {0} \cup ((MAX_QUERY_LENGTH - 3)..(MAX_QUERY_LENGTH + 1))}

\* an escaping that escapes nothing
lucene_sanitize_nothing(query) == query

\* lucene_sanitize: a reserved character gets a backslash, alphanumerics and
\* white space are kept, everything else is removed
RECURSIVE lucene_sanitize(_)
lucene_sanitize(query) ==
    IF query = <<>> THEN <<>>
    ELSE LET c == Head(query) IN
         (IF c \in LuceneReserved THEN <<"\\", c>>
          ELSE IF IsAlphanumeric(c) \/ IsWhitespace(c) THEN <<c>>
          ELSE <<>>) \o lucene_sanitize(Tail(query))

\* str::split_whitespace().count()
RECURSIVE SplitWhitespaceCount(_)
SplitWhitespaceCount(str) ==
    IF str = <<>> THEN 0
    ELSE (IF ~IsWhitespace(Head(str))
             /\ (Len(str) = 1 \/ IsWhitespace(str[2]))
          THEN 1 ELSE 0) + SplitWhitespaceCount(Tail(str))

\* group_ids: None, or Some of a list of group ids
GroupNames == {<<"g">>, <<"g", "+">>}
GroupIdLists ==
    {None} \cup {Some(l) : l \in UNION {[1..n -> GroupNames] : n \in 0..2}}

\* group_filters.join(" OR "), then " AND "
RECURSIVE GroupFilters(_)
GroupFilters(groups) ==
    IF groups = <<>> THEN <<>>
    ELSE <<"group_id:", "\"">> \o lucene_sanitize(Head(groups)) \o <<"\"">>
         \o (IF Len(groups) = 1 THEN <<" AND ">>
             ELSE <<" OR ">> \o GroupFilters(Tail(groups)))

\* group_ids_filter of fulltext_query
GroupIdsFilter(group_ids) ==
    IF group_ids = None THEN <<>>
    ELSE GroupFilters(CHOOSE groups \in group_ids : TRUE)

\* group_ids.map_or(0, |g| g.len())
GroupCount(group_ids) ==
    IF group_ids = None THEN 0 ELSE Len(CHOOSE groups \in group_ids : TRUE)

\* fulltext_query: the empty string for a query that is too long, else
\* group_ids_filter(lucene_query)
fulltext_query(query, group_ids) ==
    LET lucene_query == lucene_sanitize(query) IN
    IF SplitWhitespaceCount(lucene_query) + GroupCount(group_ids)
           >= MAX_QUERY_LENGTH
    THEN <<>>
    ELSE GroupIdsFilter(group_ids) \o <<"(">> \o lucene_query \o <<")">>

FulltextQuery ==
    /\ call.fn = "none"
    /\ \E query \in QueryStrings, group_ids \in GroupIdLists :
           call' = [fn |-> "fulltext_query", query |-> query,
                    group_ids |-> group_ids,
                    out |-> fulltext_query(query, group_ids)]
    /\ UNCHANGED nonCallVars

\* ------------------------------------------------------------ cache keys
MaxComponents == 2
MaxComponentChars == 2

\* the characters of a component: a letter and the separator
ComponentChars == {"a", "|"}
ComponentStrings == UNION {[1..k -> ComponentChars] : k \in 0..MaxComponentChars}
ComponentLists == UNION {[1..n -> ComponentStrings] : n \in 0..MaxComponents}

\* components.join("|")
RECURSIVE Join(_)
Join(components) ==
    IF components = <<>> THEN <<>>
    ELSE IF Len(components) = 1 THEN Head(components)
    ELSE Head(components) \o <<"|">> \o Join(Tail(components))

\* the digest, different for different bytes
Sha256(bytes) == [sha256 |-> bytes]

generate_cache_key(components) == Sha256(Join(components))

\* the keys of two component lists
GenerateCacheKey ==
    /\ call.fn = "none"
    /\ \E components \in ComponentLists, others \in ComponentLists :
           call' = [fn |-> "generate_cache_key",
                    components |-> components, others |-> others,
                    key |-> generate_cache_key(components),
                    other_key |-> generate_cache_key(others)]
    /\ UNCHANGED nonCallVars

\* ------------------------------------------------------ caching embedder
\* the texts embedded
Texts == {<<"a">>, <<"b">>}

\* f32 values: two finite ones and one that is not a number
Floats == {"1.0", "2.0", "NaN"}
Vectors == [1..1 -> Floats]

\* serde_json::to_vec of a Vec<f32>: a float that is not finite is written
\* as null
to_vec(embedding) ==
    [i \in DOMAIN embedding |->
        IF embedding[i] = "NaN" THEN "null" ELSE embedding[i]]

\* serde_json::from_slice::<Vec<f32>>: the vector, or None for the Err of
\* an element that is no number
from_slice(bytes) ==
    IF \E i \in DOMAIN bytes : bytes[i] = "null" THEN None ELSE Some(bytes)

\* generate_cache_key(&["embedding", input_data])
EmbedderKey(input_data) == generate_cache_key(<<<<"embedding">>, input_data>>)

\* one create call: the text, the Ok vector it returned (None for Err),
\* whether the cache held an unexpired entry, and the calls of inner.create
CreateCall(input_data, result, found, inner_calls) ==
    [input_data |-> input_data, result |-> result, found |-> found,
     inner_calls |-> inner_calls]

EmbedderInit ==
    emb = [created |-> [text \in Texts |-> None],
           last |-> CreateCall(<<>>, None, FALSE, 0)]

\* what the cache returns for the key, decoded
CachedEmbedding(input_data) ==
    LET cached_bytes == GetValue(mem, EmbedderKey(input_data), now) IN
    IF cached_bytes = None THEN None
    ELSE from_slice(CHOOSE bytes \in cached_bytes : TRUE)

\* CachedEmbedderClient::create: the cached vector if the cache has one that
\* decodes, else inner.create, whose Ok result is stored (Err is returned)
CachedCreate ==
    \E input_data \in Texts :
        LET cache_key == EmbedderKey(input_data)
            found == GetValue(mem, cache_key, now) # None
            afterGet == AfterGet(mem, cache_key, now)
        IN
        /\ IF CachedEmbedding(input_data) # None
           THEN /\ mem' = afterGet
                /\ emb' = [emb EXCEPT !.last =
                              CreateCall(input_data,
                                         CachedEmbedding(input_data), found, 0)]
           ELSE \/ /\ mem' = afterGet
                   /\ emb' = [emb EXCEPT !.last =
                                 CreateCall(input_data, None, found, 1)]
                \/ \E embedding \in Vectors :
                       /\ mem' = CacheSet(afterGet, cache_key,
                                          to_vec(embedding))
                       /\ emb' = [emb EXCEPT
                                     !.created[input_data] = Some(embedding),
                                     !.last = CreateCall(input_data,
                                                         Some(embedding),
                                                         found, 1)]
        /\ UNCHANGED now
        /\ UNCHANGED nonEmbVars

EmbedderNext ==
    \/ Tick
    \/ CachedCreate

\* ------------------------------------------------- bulk deduplication
MaxExtracted == 2

Uuids == {"a", "b", "c"}
Names == {"A", "B"}

\* the extracted nodes: uuid, name and group_id
ExtractedNodes == [uuid : Uuids, name : Names, group_id : Groups]
ExtractedLists == UNION {[1..n -> ExtractedNodes] : n \in 0..MaxExtracted}

\* HashMap<String, String> from uuid to uuid
UuidMaps == UNION {[keys -> Uuids] : keys \in SUBSET Uuids}

\* node_name_match: a node whose name was seen before is mapped to the first
\* node of that name, the others are kept
RECURSIVE NameMatch(_, _, _, _)
NameMatch(extracted, name_map, unique_nodes, uuid_map) ==
    IF extracted = <<>>
    THEN [unique_nodes |-> unique_nodes, uuid_map |-> uuid_map]
    ELSE LET node == Head(extracted) IN
         IF node.name \in DOMAIN name_map
         THEN NameMatch(Tail(extracted), name_map, unique_nodes,
                        MapInsert(uuid_map, node.uuid,
                                  name_map[node.name].uuid))
         ELSE NameMatch(Tail(extracted), MapInsert(name_map, node.name, node),
                        Append(unique_nodes, node), uuid_map)

node_name_match(extracted) == NameMatch(extracted, EmptyMap, <<>>, EmptyMap)

\* a loop that follows no chain
HasNoNextValue(uuid_map, value) == FALSE

\* while let Some(next_value) = uuid_map.get(value)
HasNextValue(uuid_map, value) == value \in DOMAIN uuid_map

\* turns: whether the while loop has made an odd number of turns
BulkCall(fn, pc, uuid_map, keys, key, value, compressed_map) ==
    [fn |-> fn, pc |-> pc, uuid_map |-> uuid_map, keys |-> keys, key |-> key,
     value |-> value, turns |-> 0, compressed_map |-> compressed_map]

BulkInit == bulk = BulkCall("none", "idle", EmptyMap, {}, "", "", EmptyMap)

\* dedupe_nodes_bulk up to its call of compress_uuid_map: node_name_match,
\* then compress_nodes, which returns the map as it is for no nodes and
\* otherwise, its chunks coming back unchanged, compresses it
DedupeNodesBulk ==
    /\ bulk.pc = "idle"
    /\ \E extracted_nodes \in ExtractedLists :
           LET matched == node_name_match(extracted_nodes) IN
           bulk' = IF matched.unique_nodes = <<>>
                   THEN BulkCall("dedupe_nodes_bulk", "done", matched.uuid_map,
                                 {}, "", "", matched.uuid_map)
                   ELSE BulkCall("dedupe_nodes_bulk", "for", matched.uuid_map,
                                 DOMAIN matched.uuid_map, "", "", EmptyMap)
    /\ UNCHANGED nonBulkVars

\* compress_uuid_map called with a map
CompressUuidMap ==
    /\ bulk.pc = "idle"
    /\ \E uuid_map \in UuidMaps :
           bulk' = BulkCall("compress_uuid_map", "for", uuid_map,
                            DOMAIN uuid_map, "", "", EmptyMap)
    /\ UNCHANGED nonBulkVars

\* for (key, mut value) in uuid_map.iter(): the next entry, in any order
ForNext ==
    /\ bulk.pc = "for"
    /\ \E key \in bulk.keys :
           bulk' = [bulk EXCEPT !.pc = "while", !.key = key,
                                !.value = bulk.uuid_map[key]]
    /\ UNCHANGED nonBulkVars

\* one turn of the while loop: value = next_value
WhileNext ==
    /\ bulk.pc = "while"
    /\ HasNextValue(bulk.uuid_map, bulk.value)
    /\ bulk' = [bulk EXCEPT !.value = bulk.uuid_map[bulk.value],
                            !.turns = 1 - bulk.turns]
    /\ UNCHANGED nonBulkVars

\* the loop is left: compressed_map.insert(key, value)
WhileExit ==
    /\ bulk.pc = "while"
    /\ ~HasNextValue(bulk.uuid_map, bulk.value)
    /\ bulk' = [bulk EXCEPT !.pc = "for", !.turns = 0,
                            !.keys = bulk.keys \ {bulk.key},
                            !.compressed_map =
                                MapInsert(bulk.compressed_map, bulk.key,
                                          bulk.value)]
    /\ UNCHANGED nonBulkVars

\* every entry has been visited: compressed_map is returned
ForExit ==
    /\ bulk.pc = "for"
    /\ bulk.keys = {}
    /\ bulk' = [bulk EXCEPT !.pc = "done"]
    /\ UNCHANGED nonBulkVars

BulkNext ==
    \/ DedupeNodesBulk
    \/ CompressUuidMap
    \/ ForNext
    \/ WhileNext
    \/ WhileExit
    \/ ForExit

\* ------------------------------------------- bulk deduplication of edges
MaxExtractedEdges == 2

\* the extracted entity edges: their two node pointers
ExtractedEdges == [source_node_uuid : Uuids, target_node_uuid : Uuids]
ExtractedEdgeLists ==
    UNION {[1..n -> ExtractedEdges] : n \in 0..MaxExtractedEdges}

\* resolve_edge_pointers: a pointer that is a key of the map is replaced by
\* its value, one step
ResolveUuid(uuid_map, uuid) ==
    IF uuid \in DOMAIN uuid_map THEN uuid_map[uuid] ELSE uuid

resolve_edge_pointers(extracted_edges, uuid_map) ==
    [i \in DOMAIN extracted_edges |->
        [source_node_uuid |->
             ResolveUuid(uuid_map, extracted_edges[i].source_node_uuid),
         target_node_uuid |->
             ResolveUuid(uuid_map, extracted_edges[i].target_node_uuid)]]

\* an edge nothing is skipped for
IsNoSelfLoop(e) == FALSE

\* chunk_edges_by_nodes: the edge is skipped
IsSelfLoop(e) == e.source_node_uuid = e.target_node_uuid

\* the order of strings, for pointers.sort()
UuidRank == [uuid \in Uuids |-> IF uuid = "a" THEN 1 ELSE IF uuid = "b" THEN 2 ELSE 3]

\* chunk_edges_by_nodes: the two pointers, sorted and joined
ChunkKey(e) ==
    IF UuidRank[e.source_node_uuid] <= UuidRank[e.target_node_uuid]
    THEN <<e.source_node_uuid, e.target_node_uuid>>
    ELSE <<e.target_node_uuid, e.source_node_uuid>>

\* the elements of a sequence that have the key, in their order
RECURSIVE ChunkOf(_, _)
ChunkOf(extracted_edges, key) ==
    IF extracted_edges = <<>> THEN <<>>
    ELSE (IF ~IsSelfLoop(Head(extracted_edges))
             /\ ChunkKey(Head(extracted_edges)) = key
          THEN <<Head(extracted_edges)>> ELSE <<>>)
         \o ChunkOf(Tail(extracted_edges), key)

\* chunk_edges_by_nodes: edge_chunk_map, self-loops left out
chunk_edges_by_nodes(extracted_edges) ==
    LET keys == {ChunkKey(extracted_edges[i]) :
                    i \in {j \in DOMAIN extracted_edges :
                              ~IsSelfLoop(extracted_edges[j])}}
    IN [key \in keys |-> ChunkOf(extracted_edges, key)]

\* the orders in which HashMap::into_values may hand out the chunks
ChunkOrders(edge_chunk_map) ==
    {order \in [1..Cardinality(DOMAIN edge_chunk_map) -> DOMAIN edge_chunk_map] :
        IsInjective(order)}

\* results.into_iter().flatten().collect()
RECURSIVE Flatten(_, _)
Flatten(edge_chunk_map, order) ==
    IF order = <<>> THEN <<>>
    ELSE edge_chunk_map[Head(order)] \o Flatten(edge_chunk_map, Tail(order))

\* the results compress_edges may return: chunks come back as they went,
\* and another round follows when edges were left out
RECURSIVE compress_edges(_)
compress_edges(extracted_edges) ==
    IF extracted_edges = <<>> THEN {<<>>}
    ELSE LET edge_chunk_map == chunk_edges_by_nodes(extracted_edges)
             compressed == {Flatten(edge_chunk_map, order) :
                               order \in ChunkOrders(edge_chunk_map)}
         IN UNION {IF Len(compressed_edges) = Len(extracted_edges)
                   THEN {compressed_edges}
                   ELSE compress_edges(compressed_edges) :
                       compressed_edges \in compressed}

\* resolve_edge_pointers, then dedupe_edges_bulk (whose chunks of CHUNK_SIZE
\* come back as they went, in order)
DedupeEdgesBulk ==
    /\ call.fn = "none"
    /\ \E extracted_edges \in ExtractedEdgeLists, uuid_map \in UuidMaps :
           LET resolved == resolve_edge_pointers(extracted_edges, uuid_map) IN
           \E deduped \in compress_edges(resolved) :
               call' = [fn |-> "dedupe_edges_bulk",
                        extracted_edges |-> extracted_edges,
                        uuid_map |-> uuid_map,
                        resolved |-> resolved,
                        out |-> deduped]
    /\ UNCHANGED nonCallVars

\* node_name_match called with a list of nodes
NodeNameMatch ==
    /\ call.fn = "none"
    /\ \E extracted \in ExtractedLists :
           call' = [fn |-> "node_name_match", extracted |-> extracted,
                    out |-> node_name_match(extracted)]
    /\ UNCHANGED nonCallVars

\* ------------------------------------- the store under concurrent calls
\* one call of the store: where it is, its arguments, what it returned
StoreTask(pc, source_id, target_id, res) ==
    [pc |-> pc, source_id |-> source_id, target_id |-> target_id, res |-> res]

TasksInit ==
    tasks = [create_edge |-> StoreTask("idle", 0, 0, ""),
             delete_node |-> StoreTask("idle", 0, 0, "")]

\* delete_node holds the lock of nodes from its first line to its return
NodesLocked == tasks.delete_node.pc = "retain"

\* create_edge, first half: under the lock of nodes both nodes are looked
\* up, then the lock is dropped
CreateEdgeCheck ==
    /\ tasks.create_edge.pc = "idle"
    /\ ~NodesLocked
    /\ \E source_id \in Ids, target_id \in Ids :
           tasks' = [tasks EXCEPT !.create_edge =
                        IF source_id \in DOMAIN nodes
                           /\ target_id \in DOMAIN nodes
                        THEN StoreTask("insert", source_id, target_id, "")
                        ELSE StoreTask("done", source_id, target_id,
                                       "NotFound")]
    /\ UNCHANGED <<nodes, edges, nextId, gather, expiry>>
    /\ UNCHANGED nonTasksVars

\* create_edge, second half: under the lock of edges the edge is inserted
CreateEdgeInsert ==
    /\ tasks.create_edge.pc = "insert"
    /\ nextId <= MaxIds
    /\ edges' = MapInsert(edges, nextId,
                          EdgeData(nextId, "ENTITY_EDGE",
                                   tasks.create_edge.source_id,
                                   tasks.create_edge.target_id, NoProps))
    /\ nextId' = nextId + 1
    /\ tasks' = [tasks EXCEPT !.create_edge.pc = "done",
                              !.create_edge.res = "Ok"]
    /\ UNCHANGED <<nodes, gather, expiry>>
    /\ UNCHANGED nonTasksVars

\* delete_node, first half: the lock of nodes is taken and the node removed
DeleteNodeRemove ==
    /\ tasks.delete_node.pc = "idle"
    /\ \E id \in Ids :
           IF id \in DOMAIN nodes
           THEN /\ nodes' = MapRemove(nodes, id)
                /\ tasks' = [tasks EXCEPT !.delete_node =
                                StoreTask("retain", id, id, "")]
           ELSE /\ nodes' = nodes
                /\ tasks' = [tasks EXCEPT !.delete_node =
                                StoreTask("done", id, id, "NotFound")]
    /\ UNCHANGED <<edges, nextId, gather, expiry>>
    /\ UNCHANGED nonTasksVars

\* delete_node, second half: the lock of edges is taken, the edges of the
\* node are removed, and both locks are released
DeleteNodeRetain ==
    /\ tasks.delete_node.pc = "retain"
    /\ edges' = MapRetain(edges,
                   {e \in DOMAIN edges :
                       /\ edges[e].source_id # tasks.delete_node.source_id
                       /\ edges[e].target_id # tasks.delete_node.source_id})
    /\ tasks' = [tasks EXCEPT !.delete_node.pc = "done",
                              !.delete_node.res = "Ok"]
    /\ UNCHANGED <<nodes, nextId, gather, expiry>>
    /\ UNCHANGED nonTasksVars

\* nodes are created, then one create_edge and one delete_node run side by
\* side
\* create_node, before the two calls start
CreateNodeFirst ==
    /\ tasks.create_edge.pc = "idle"
    /\ tasks.delete_node.pc = "idle"
    /\ CreateNode

TasksNext ==
    \/ CreateNodeFirst
    \/ CreateEdgeCheck
    \/ CreateEdgeInsert
    \/ DeleteNodeRemove
    \/ DeleteNodeRetain

\* ---------------------------------- expiry removal concurrent with set
\* a read or sweep in progress: where it is and the keys it is to remove
ExpiryTask(pc, keys) == [pc |-> pc, keys |-> keys]

\* fresh: whether a removal by get or by the sweep has deleted an entry that
\* was not expired
ExpiryInit ==
    expiry = [mem_get |-> ExpiryTask("idle", {}),
              disk_get |-> ExpiryTask("idle", {}),
              sweep |-> ExpiryTask("idle", {}),
              fresh |-> FALSE]

\* the process uses one cache: the memory cache or the disk cache
MemoryCacheOnly ==
    disk = EmptyMap /\ expiry.disk_get.pc = "idle" /\ expiry.sweep.pc = "idle"
DiskCacheOnly == mem = EmptyMap /\ expiry.mem_get.pc = "idle"

\* MemoryCache::set / DiskCache::set next to the reads
MemSetBeside == MemoryCacheOnly /\ MemSet
DiskSetBeside == DiskCacheOnly /\ DiskSet

\* the entry under the key is there, decodes and is not expired
IsFresh(m, key, t) ==
    key \in DOMAIN m /\ ~IsUndecodable(m, key) /\ ~is_expired(m[key], t)

\* MemoryCache::get up to the remove: cache.get(key), entry.is_expired()
MemGetRead ==
    /\ expiry.mem_get.pc = "idle"
    /\ MemoryCacheOnly
    /\ \E key \in CacheKeys :
           expiry' = [expiry EXCEPT !.mem_get =
                         IF key \in DOMAIN mem /\ is_expired(mem[key], now)
                         THEN ExpiryTask("remove", {key})
                         ELSE ExpiryTask("idle", {})]
    /\ UNCHANGED <<mem, disk, now, tasks, gather>>
    /\ UNCHANGED nonExpiryVars

\* MemoryCache::get: cache.remove(key) of the entry found expired
MemGetRemove ==
    /\ expiry.mem_get.pc = "remove"
    /\ \E key \in expiry.mem_get.keys :
           /\ mem' = MapRemove(mem, key)
           /\ expiry' = [expiry EXCEPT
                            !.mem_get = ExpiryTask("idle", {}),
                            !.fresh = @ \/ IsFresh(mem, key, now)]
    /\ UNCHANGED <<disk, now, tasks, gather>>
    /\ UNCHANGED nonExpiryVars

\* DiskCache::get up to the remove: db.get(key), from_bytes, is_expired()
DiskGetRead ==
    /\ expiry.disk_get.pc = "idle"
    /\ DiskCacheOnly
    /\ \E key \in CacheKeys :
           expiry' = [expiry EXCEPT !.disk_get =
                         IF IsExpiredEntry(disk, key, now)
                         THEN ExpiryTask("remove", {key})
                         ELSE ExpiryTask("idle", {})]
    /\ UNCHANGED <<mem, disk, now, tasks, gather>>
    /\ UNCHANGED nonExpiryVars

\* DiskCache::get: db.remove(key) of the entry found expired
DiskGetRemove ==
    /\ expiry.disk_get.pc = "remove"
    /\ \E key \in expiry.disk_get.keys :
           /\ disk' = MapRemove(disk, key)
           /\ expiry' = [expiry EXCEPT
                            !.disk_get = ExpiryTask("idle", {}),
                            !.fresh = @ \/ IsFresh(disk, key, now)]
    /\ UNCHANGED <<mem, now, tasks, gather>>
    /\ UNCHANGED nonExpiryVars

\* DiskCache::cleanup_expired, first loop: the expired keys are collected
SweepCollect ==
    /\ expiry.sweep.pc = "idle"
    /\ DiskCacheOnly
    /\ expiry' = [expiry EXCEPT !.sweep =
                     ExpiryTask("remove",
                                {key \in DOMAIN disk :
                                    IsExpiredEntry(disk, key, now)})]
    /\ UNCHANGED <<mem, disk, now, tasks, gather>>
    /\ UNCHANGED nonExpiryVars

\* DiskCache::cleanup_expired, second loop: db.remove of one collected key
SweepRemove ==
    /\ expiry.sweep.pc = "remove"
    /\ \E key \in expiry.sweep.keys :
           /\ disk' = MapRemove(disk, key)
           /\ expiry' = [expiry EXCEPT
                            !.sweep.keys = @ \ {key},
                            !.fresh = @ \/ IsFresh(disk, key, now)]
    /\ UNCHANGED <<mem, now, tasks, gather>>
    /\ UNCHANGED nonExpiryVars

\* DiskCache::cleanup_expired: every collected key is removed; flush, return
SweepFlush ==
    /\ expiry.sweep.pc = "remove"
    /\ expiry.sweep.keys = {}
    /\ expiry' = [expiry EXCEPT !.sweep = ExpiryTask("idle", {})]
    /\ UNCHANGED <<mem, disk, now, tasks, gather>>
    /\ UNCHANGED nonExpiryVars

ExpiryNext ==
    \/ Tick
    \/ MemSetBeside
    \/ DiskSetBeside
    \/ MemGetRead
    \/ MemGetRemove
    \/ DiskGetRead
    \/ DiskGetRemove
    \/ SweepCollect
    \/ SweepRemove
    \/ SweepFlush

\* ------------------------------------------------------ semaphore_gather
SemaphoreLimit == 2
MaxFutures == 4
Gathers == {1, 2}

\* one semaphore_gather call: its own semaphore's free permits, the
\* futures waiting for a permit and the futures running with one
Gather(pc, permits, waiting, running) ==
    [pc |-> pc, permits |-> permits, waiting |-> waiting, running |-> running]

GatherInit == gather = [g \in Gathers |-> Gather("idle", 0, 0, 0)]

\* semaphore_limit(): the configured limit
semaphore_limit == SemaphoreLimit

\* semaphore_gather is called: Semaphore::new(limit), one task per future
SemaphoreGather ==
    \E g \in Gathers, futures \in 0..MaxFutures :
        /\ gather[g].pc = "idle"
        /\ gather' = [gather EXCEPT ![g] =
                         Gather("join_all", semaphore_limit, futures, 0)]
        /\ UNCHANGED <<tasks, expiry>>
        /\ UNCHANGED nonGatherVars

\* semaphore.acquire() of one task succeeds and its future starts
Acquire ==
    \E g \in Gathers :
        /\ gather[g].pc = "join_all"
        /\ gather[g].waiting > 0
        /\ gather[g].permits > 0
        /\ gather' = [gather EXCEPT ![g].permits = @ - 1,
                                    ![g].waiting = @ - 1,
                                    ![g].running = @ + 1]
        /\ UNCHANGED <<tasks, expiry>>
        /\ UNCHANGED nonGatherVars

\* a future completes and its permit is dropped
FutureCompletes ==
    \E g \in Gathers :
        /\ gather[g].running > 0
        /\ gather' = [gather EXCEPT ![g].permits = @ + 1,
                                    ![g].running = @ - 1]
        /\ UNCHANGED <<tasks, expiry>>
        /\ UNCHANGED nonGatherVars

\* join_all returns: every task has completed
JoinAll ==
    \E g \in Gathers :
        /\ gather[g].pc = "join_all"
        /\ gather[g].waiting = 0
        /\ gather[g].running = 0
        /\ gather' = [gather EXCEPT ![g] = Gather("idle", 0, 0, 0)]
        /\ UNCHANGED <<tasks, expiry>>
        /\ UNCHANGED nonGatherVars

GatherNext ==
    \/ SemaphoreGather
    \/ Acquire
    \/ FutureCompletes
    \/ JoinAll

\* --------------------------------------------- the full-text search paths
\* build_node_fulltext_query: the $query_text parameter of the index call
BuildNodeFulltextQuery ==
    /\ call.fn = "none"
    /\ \E query_text \in QueryStrings, group_ids \in GroupIdLists :
           LET sanitized_query == lucene_sanitize(query_text) IN
           call' = [fn |-> "build_node_fulltext_query", query |-> query_text,
                    group_ids |-> group_ids, sent |-> TRUE,
                    query_text |-> fulltext_query(sanitized_query, group_ids)]
    /\ UNCHANGED nonCallVars

\* episode_fulltext_search up to the index call: nothing is sent for an
\* empty query, a limit of 0 or an empty search query
EpisodeFulltextSearch ==
    /\ call.fn = "none"
    /\ \E query \in QueryStrings, group_ids \in GroupIdLists, limit \in {0, 1} :
           LET sanitized_query == lucene_sanitize(query)
               search_query == fulltext_query(sanitized_query, group_ids)
           IN
           call' = [fn |-> "episode_fulltext_search", query |-> query,
                    group_ids |-> group_ids,
                    sent |-> ~(query = <<>> \/ limit = 0)
                             /\ search_query # <<>>,
                    query_text |-> search_query]
    /\ UNCHANGED nonCallVars

FulltextPathsNext ==
    \/ BuildNodeFulltextQuery
    \/ EpisodeFulltextSearch

\* ---------------------------------------------------- graph maintenance
MaxGraphNodes == 2
MaxGraphEdges == 2

\* the nodes and edges of a graph handed to the maintenance functions; the
\* uuid string of edge "e1" parses as a Uuid, that of "bad" does not
GraphNodes == [uuid : Uuids, name : Names]
GraphEdges ==
    [uuid : {"e1", "bad"}, source_node_uuid : Uuids, target_node_uuid : Uuids]
GraphNodeLists == UNION {[1..n -> GraphNodes] : n \in 0..MaxGraphNodes}
GraphEdgeLists == UNION {[1..n -> GraphEdges] : n \in 0..MaxGraphEdges}

\* edge.base.uuid.parse::<Uuid>(): the Uuid, or None for Err
ParseUuid(uuid) == IF uuid = "bad" THEN None ELSE Some(uuid)

\* validate_graph_consistency: the uuids and names the report lists (the
\* report is only asked whether it contains a value and whether it is empty)
validate_graph_consistency(graph_nodes, graph_edges) ==
    LET node_uuids == {graph_nodes[i].uuid : i \in DOMAIN graph_nodes}
        Edge(i) == graph_edges[i]
    IN
    [orphaned_edges |->
         UNION {ParseUuid(Edge(i).uuid) :
                   i \in {j \in DOMAIN graph_edges :
                             \/ Edge(j).source_node_uuid \notin node_uuids
                             \/ Edge(j).target_node_uuid \notin node_uuids}},
     self_loops |->
         UNION {ParseUuid(Edge(i).uuid) :
                   i \in {j \in DOMAIN graph_edges :
                             Edge(j).source_node_uuid
                                 = Edge(j).target_node_uuid}},
     duplicate_node_names |->
         {name \in Names :
             Cardinality({i \in DOMAIN graph_nodes :
                             graph_nodes[i].name = name}) > 1}]

\* ValidationReport::is_valid (temporal_inconsistencies is never filled)
is_valid(report) ==
    /\ report.orphaned_edges = {}
    /\ report.self_loops = {}
    /\ report.duplicate_node_names = {}

\* edges.retain: an edge stays unless its uuid parses and is listed
RECURSIVE RetainEdges(_, _)
RetainEdges(graph_edges, listed) ==
    IF graph_edges = <<>> THEN <<>>
    ELSE (IF ParseUuid(Head(graph_edges).uuid) \cap listed = {}
          THEN <<Head(graph_edges)>> ELSE <<>>)
         \o RetainEdges(Tail(graph_edges), listed)

\* nodes.retain: of a duplicated name the first node stays
RECURSIVE RetainNodes(_, _, _)
RetainNodes(graph_nodes, duplicate_node_names, seen_names) ==
    IF graph_nodes = <<>> THEN <<>>
    ELSE LET node == Head(graph_nodes) IN
         (IF node.name \in duplicate_node_names /\ node.name \in seen_names
          THEN <<>> ELSE <<node>>)
         \o RetainNodes(Tail(graph_nodes), duplicate_node_names,
                        IF node.name \in duplicate_node_names
                        THEN seen_names \cup {node.name} ELSE seen_names)

cleanup_graph_data(graph_nodes, graph_edges, validation_report) ==
    [nodes |-> RetainNodes(graph_nodes,
                           validation_report.duplicate_node_names, {}),
     edges |-> RetainEdges(RetainEdges(graph_edges,
                                       validation_report.orphaned_edges),
                           validation_report.self_loops)]

\* a graph is validated, cleaned with the report, and validated again
CleanupGraphData ==
    /\ call.fn = "none"
    /\ \E graph_nodes \in GraphNodeLists, graph_edges \in GraphEdgeLists :
           LET report == validate_graph_consistency(graph_nodes, graph_edges)
               cleaned == cleanup_graph_data(graph_nodes, graph_edges, report)
           IN
           call' = [fn |-> "cleanup_graph_data", nodes |-> graph_nodes,
                    edges |-> graph_edges, report |-> report,
                    out |-> cleaned,
                    out_report |-> validate_graph_consistency(cleaned.nodes,
                                                              cleaned.edges)]
    /\ UNCHANGED nonCallVars

\* ------------------------------------------------ helpers::lucene_sanitize
MaxSanitizeChars == 3
SanitizeChars == {"t", "+", "-", "\\", "O"}
SanitizeStrings == UNION {[1..n -> SanitizeChars] : n \in 0..MaxSanitizeChars}

\* the characters of special_chars, in the order of the array; each one's
\* replacement is a backslash followed by the character
special_chars ==
    <<"+", "-", "&", "|", "!", "(", ")", "{", "}", "[", "]", "^", "\"", "~",
      "*", "?", ":", "\\", "/", "O", "R", "N", "T", "A", "D">>

\* str::replace(char, replacement) for one entry of special_chars
RECURSIVE Replace(_, _)
Replace(sanitized, char) ==
    IF sanitized = <<>> THEN <<>>
    ELSE (IF Head(sanitized) = char THEN <<"\\", char>>
          ELSE <<Head(sanitized)>>)
         \o Replace(Tail(sanitized), char)

\* the loop over special_chars from entry i on: every replacement is
\* applied to the result of the ones before it
RECURSIVE ReplaceFrom(_, _)
ReplaceFrom(sanitized, i) ==
    IF i > Len(special_chars) THEN sanitized
    ELSE ReplaceFrom(Replace(sanitized, special_chars[i]), i + 1)

helpers_lucene_sanitize(query) == ReplaceFrom(query, 1)

HelpersLuceneSanitize ==
    /\ call.fn = "none"
    /\ \E query \in SanitizeStrings :
           call' = [fn |-> "helpers::lucene_sanitize", query |-> query,
                    out |-> helpers_lucene_sanitize(query)]
    /\ UNCHANGED nonCallVars

\* ---------------------------------------------------------- specifications
Init ==
    /\ StoreInit
    /\ EdgeInit
    /\ CacheInit
    /\ LlmInit
    /\ SearchInit
    /\ CallInit
    /\ EmbedderInit
    /\ BulkInit
    /\ TasksInit
    /\ ExpiryInit
    /\ GatherInit

\* the graph store and node persistence
Next == StoreNext

Spec == Init /\ [][Next]_vars

\* one entity edge under its constructor, builders and
\* update_edge_temporal_bounds
InitEdge ==
    /\ StoreInit
    /\ \E valid_at \in Times : edge = EntityEdgeNew(valid_at)
    /\ CacheInit
    /\ LlmInit
    /\ SearchInit
    /\ CallInit
    /\ EmbedderInit
    /\ BulkInit
    /\ TasksInit
    /\ ExpiryInit
    /\ GatherInit

SpecEdge == InitEdge /\ [][EdgeNext]_vars

\* the in-memory cache under a running clock
SpecMemCache == Init /\ [][MemCacheNext]_vars

\* the disk cache under a running clock, with its background sweep
SpecDiskCache == Init /\ [][DiskCacheNext]_vars

\* the LLM client: generate_response and execute_with_retry, with the
\* response cache enabled or not
InitLlm ==
    /\ StoreInit
    /\ EdgeInit
    /\ CacheInit
    /\ \E cache_enabled \in BOOLEAN :
           llm = Llm("idle", cache_enabled, FALSE, 0, None, <<>>, None)
    /\ retry = Retry("idle", RetryTake, <<>>, <<>>, None)
    /\ SearchInit
    /\ CallInit
    /\ EmbedderInit
    /\ BulkInit
    /\ TasksInit
    /\ ExpiryInit
    /\ GatherInit

SpecLlm == InitLlm /\ [][LlmNext]_vars

\* memoized search over a store whose groups are filled and deleted, within
\* the time to live of the cache entries
SearchNext ==
    \/ EntityNodeSave
    \/ DeleteByGroupId
    \/ Search

SpecSearch == Init /\ [][SearchNext]_vars

\* the ranking of the hits of search_nodes
SpecRank == Init /\ [][SearchNodes]_vars

\* the queries generated for date filters
SpecFilter == Init /\ [][FilterNext]_vars

\* the full-text query built for a query string and group ids
SpecFulltext == Init /\ [][FulltextQuery]_vars

\* the cache keys of two component lists
SpecKey == Init /\ [][GenerateCacheKey]_vars

\* the caching embedder over the memory cache, under a running clock
SpecEmbedder == Init /\ [][EmbedderNext]_vars

\* bulk deduplication of nodes: the one task runs whenever it can
SpecBulk == Init /\ [][BulkNext]_vars /\ WF_vars(BulkNext)

\* edge pointers rewritten with a uuid map, then the edges deduplicated
SpecEdgesBulk == Init /\ [][DedupeEdgesBulk]_vars

\* name-merge of a list of extracted nodes
SpecNameMatch == Init /\ [][NodeNameMatch]_vars

\* create_edge and delete_node of the in-memory store on two threads
SpecTasks == Init /\ [][TasksNext]_vars

\* reads and the sweep of the caches, step by step, next to set
SpecExpiry == Init /\ [][ExpiryNext]_vars

\* two fan-outs running at the same time
SpecGather == Init /\ [][GatherNext]_vars

\* the query text the full-text search paths hand to the index
SpecFulltextPaths == Init /\ [][FulltextPathsNext]_vars

\* validation and cleanup of a graph
SpecMaintenance == Init /\ [][CleanupGraphData]_vars

\* one call of helpers::lucene_sanitize
SpecHelpers == Init /\ [][HelpersLuceneSanitize]_vars

\* ------------------------------------------------------------------ claims

\* C1: in the in-memory store, after any sequence of create_node,
\* create_edge, delete_node, delete_edge and delete_by_group_id calls, the
\* source and the target of every stored edge are ids of stored nodes.
EdgesResolve ==
    \A id \in DOMAIN edges :
        /\ edges[id].source_id \in DOMAIN nodes
        /\ edges[id].target_id \in DOMAIN nodes

\* C2: a delete_by_group_id(g) step removes exactly the nodes and edges whose
\* group_id is g: after it no node and no edge of group g is stored, and
\* every node and edge that was not of group g is still stored, unchanged.
GroupDeleteExact ==
    [][lastOp'.op = "delete_by_group_id" =>
        LET g == lastOp'.g IN
        /\ \A id \in DOMAIN nodes' : ~HasGroup(nodes'[id], g)
        /\ \A id \in DOMAIN edges' : ~HasGroup(edges'[id], g)
        /\ \A id \in DOMAIN nodes :
               ~HasGroup(nodes[id], g) =>
                   id \in DOMAIN nodes' /\ nodes'[id] = nodes[id]
        /\ \A id \in DOMAIN edges :
               ~HasGroup(edges[id], g) =>
                   id \in DOMAIN edges' /\ edges'[id] = edges[id]]_vars

\* a delete_by_group_id that took something out of the store and left a
\* node or an edge of another group in it
GroupDeleteRemovedAndKept ==
    /\ lastOp.op = "delete_by_group_id"
    /\ lastOp.removed > 0
    /\ \E g \in Groups \ {lastOp.g} :
           \/ \E id \in DOMAIN nodes : HasGroup(nodes[id], g)
           \/ \E id \in DOMAIN edges : HasGroup(edges[id], g)

\* the stored nodes that carry a uuid, as key or as their uuid property
NodesCarrying(uuid) ==
    {id \in DOMAIN nodes : id = uuid \/ nodes[id].properties.uuid = Some(uuid)}

\* C3: after a node with some uuid has been saved, any number of times, the
\* store holds exactly one node carrying that uuid.
SaveKeepsOneNode ==
    lastOp.op = "save" => Cardinality(NodesCarrying(lastOp.id)) = 1

\* C4: after add_episode has returned successfully, the store holds exactly
\* one episodic node for the returned episode's uuid.
AddEpisodeStoresEpisode ==
    lastOp.op = "add_episode" /\ lastOp.res = "Ok" =>
        Cardinality({id \in NodesCarrying(lastOp.id) :
                        IsSome(nodes[id].properties.content)}) = 1

\* C5: an entity edge that has invalid_at set has expired_at set, whichever
\* sequence of EntityEdge::new, with_invalid_at, with_expired_at and
\* update_edge_temporal_bounds produced it.
InvalidImpliesExpired == IsSome(edge.invalid_at) => IsSome(edge.expired_at)

\* C6: for an entity edge with invalid_at set, valid_at is not later than
\* invalid_at, after update_edge_temporal_bounds and after the builders.
ValidNotAfterInvalid ==
    \A valid_at \in edge.valid_at, invalid_at \in edge.invalid_at :
        valid_at <= invalid_at

\* C7: a read of an entry whose TTL has elapsed sees nothing, on either
\* backend: get returns no value and exists returns false, whether or not
\* the entry has been removed yet.
ExpiredInvisible ==
    lastRead.expired => lastRead.value = None /\ ~lastRead.exists

\* C8: a call that failed with a rate-limit, timeout or transient network
\* error is retried, and the error is returned after 4 attempts in total,
\* never more: both for generate_response and for execute_with_retry.
RetryableRetriedUpToFour ==
    /\ Len(llm.calls) <= 4
    /\ Len(retry.calls) <= 4
    /\ llm.pc = "done" /\ llm.calls # <<>>
           /\ Last(llm.calls) \in {"RateLimit", "Http", "NetworkError"}
           => Len(llm.calls) = 4
    /\ retry.pc = "done" /\ retry.calls # <<>>
           /\ Last(retry.calls) \in {"RateLimit", "Http", "Timeout"}
           => Len(retry.calls) = 4

\* C9: when the provider refuses, generate_response makes no further attempt
\* and returns an error of the Refusal kind, on the first attempt as well as
\* after earlier failed attempts.
RefusalReturned ==
    /\ llm.pc = "loop" => \A i \in 1..Len(llm.calls) : llm.calls[i] # "Refusal"
    /\ llm.pc = "done" /\ llm.calls # <<>> /\ Last(llm.calls) = "Refusal"
           => llm.result = Some("Refusal")

\* C10: a search restricted to group g that follows the deletion of group g
\* returns no result of any kind, whatever was searched and memoized before
\* the deletion.
DeletedGroupNotFound ==
    lastSearch.deleted => lastSearch.results = NoResults

OrderedByScoreThenUuid ==
    call.fn = "search_nodes" =>
        \A i, j \in DOMAIN call.out :
            i < j => \/ call.out[i].score > call.out[j].score
                     \/ /\ call.out[i].score = call.out[j].score
                        /\ call.out[i].uuid < call.out[j].uuid

\* C13: a search with limit 0 returns no result of any kind and calls
\* neither the embedder nor the graph driver.
LimitZeroCallsNoPort ==
    lastSearch.query # "" /\ lastSearch.limit = 0 =>
        /\ lastSearch.results = NoResults
        /\ lastSearch.embedder_calls = 0
        /\ lastSearch.driver_calls = 0

\* C14: the query and parameters generated for a list of date-filter
\* groups select an item exactly when at least one group has all of its
\* predicates true of the item, each with its own date and operator.
FilterIsOrOfAnds ==
    call.fn \in {"edge_search_filter_query", "episode_search_filter_query"} =>
        (call.selected <=>
            \E i \in DOMAIN call.date_filters :
                \A j \in DOMAIN call.date_filters[i] :
                    Compare(call.value,
                            call.date_filters[i][j].comparison_operator,
                            call.date_filters[i][j].date))

\* the part of a non-empty output of fulltext_query between the parentheses
\* that follow the group filter
QueryPart(out, group_ids) ==
    SubSeq(out, Len(GroupIdsFilter(group_ids)) + 2, Len(out) - 1)

\* every reserved character of str follows a backslash that escapes it
RECURSIVE AllEscaped(_)
AllEscaped(str) ==
    IF str = <<>> THEN TRUE
    ELSE IF Head(str) = "\\"
    THEN Len(str) >= 2 /\ str[2] \in LuceneReserved
         /\ AllEscaped(SubSeq(str, 3, Len(str)))
    ELSE Head(str) \notin LuceneReserved /\ AllEscaped(Tail(str))

\* C15: in a non-empty output of fulltext_query every reserved character of
\* the query string appears, and only backslash-escaped; the whitespace
\* tokens of the query plus the group-id clauses are at most 32, and a query
\* of greater size yields the empty string.
FulltextEscapedAndCapped ==
    call.fn = "fulltext_query" =>
        LET groups == GroupCount(call.group_ids) IN
        /\ call.out # <<>> =>
              LET part == QueryPart(call.out, call.group_ids) IN
              /\ AllEscaped(part)
              /\ \A i \in DOMAIN call.query :
                     call.query[i] \in LuceneReserved =>
                         \E j \in 2..Len(part) :
                             part[j] = call.query[i] /\ part[j - 1] = "\\"
              /\ SplitWhitespaceCount(part) + groups <= 32
        /\ SplitWhitespaceCount(lucene_sanitize(call.query)) + groups > 32
               => call.out = <<>>

\* a query with a reserved character and a group filter, short enough to be
\* sent
FulltextEscapedSent ==
    /\ call.fn = "fulltext_query"
    /\ call.out # <<>>
    /\ GroupCount(call.group_ids) > 0
    /\ \E i \in DOMAIN call.query : call.query[i] \in LuceneReserved

\* C16: generate_cache_key gives one component list one key, and two
\* different component lists two different keys.
KeysCollisionFree ==
    call.fn = "generate_cache_key" =>
        (call.components = call.others <=> call.key = call.other_key)

\* C17: on the disk cache a key whose stored bytes cannot be decoded reads
\* as a miss: get returns no value, without an error, and counts one miss;
\* exists returns false, without an error.
UndecodableIsMiss ==
    lastRead.backend = "disk" /\ lastRead.undecodable =>
        /\ ~lastRead.error
        /\ lastRead.value = None
        /\ ~lastRead.exists
        /\ lastRead.op = "get" => lastRead.misses = 1

\* C18: a create(text) of the caching embedder that finds the entry of an
\* earlier successful create(text) unexpired returns the vector of that
\* create and does not call the wrapped embedder.
CachedCreateSkipsInner ==
    emb.last.found =>
        /\ emb.last.inner_calls = 0
        /\ emb.last.result = emb.created[emb.last.input_data]

\* where the chain that starts at value ends in the map, if it ends within n
\* steps
RECURSIVE ChainEnd(_, _, _)
ChainEnd(uuid_map, value, n) ==
    IF value \notin DOMAIN uuid_map THEN Some(value)
    ELSE IF n = 0 THEN None
    ELSE ChainEnd(uuid_map, uuid_map[value], n - 1)

\* no chain of the map comes back to a key it has passed
Acyclic(uuid_map) ==
    \A key \in DOMAIN uuid_map :
        ChainEnd(uuid_map, key, Cardinality(DOMAIN uuid_map)) # None

\* C19: for an acyclic uuid map, compress_uuid_map returns a map with the
\* same keys that maps each key to the end of its chain, so that no value of
\* the result is a key of the input map.
CompressedToChainEnds ==
    bulk.pc = "done" /\ Acyclic(bulk.uuid_map) =>
        /\ DOMAIN bulk.compressed_map = DOMAIN bulk.uuid_map
        /\ \A key \in DOMAIN bulk.uuid_map :
               /\ bulk.compressed_map[key] \notin DOMAIN bulk.uuid_map
               /\ Some(bulk.compressed_map[key])
                      = ChainEnd(bulk.uuid_map, key,
                                 Cardinality(DOMAIN bulk.uuid_map))

\* compress_uuid_map has returned for a map with a chain of two steps
ChainOfTwoCompressed ==
    /\ bulk.pc = "done"
    /\ bulk.fn = "compress_uuid_map"
    /\ \E key \in DOMAIN bulk.uuid_map :
           /\ bulk.uuid_map[key] \in DOMAIN bulk.uuid_map
           /\ bulk.compressed_map[key] # bulk.uuid_map[key]

\* C20: dedupe_nodes_bulk, whatever nodes were extracted, gets its uuid map
\* back from compress_uuid_map: the call ends.
DedupeNodesBulkEnds ==
    bulk.fn = "dedupe_nodes_bulk" ~> bulk.pc = "done"

\* C21: after resolve_edge_pointers and dedupe_edges_bulk no remaining edge
\* has source_node_uuid equal to target_node_uuid: every edge whose two
\* endpoints resolve to the same node is dropped, and every other resolved
\* edge remains.
NoSelfLoopAfterDedupe ==
    call.fn = "dedupe_edges_bulk" =>
        /\ \A i \in DOMAIN call.out :
               call.out[i].source_node_uuid # call.out[i].target_node_uuid
        /\ \A e \in ExtractedEdges :
               e.source_node_uuid # e.target_node_uuid =>
                   Cardinality({i \in DOMAIN call.out : call.out[i] = e})
                       = Cardinality({i \in DOMAIN call.resolved :
                                         call.resolved[i] = e})

\* two different nodes were merged by the uuid map, the edge between them
\* was dropped and another edge was kept
MergedEndpointsDropped ==
    /\ call.fn = "dedupe_edges_bulk"
    /\ \E i \in DOMAIN call.extracted_edges :
           /\ call.extracted_edges[i].source_node_uuid
                  # call.extracted_edges[i].target_node_uuid
           /\ call.resolved[i].source_node_uuid
                  = call.resolved[i].target_node_uuid
    /\ call.out # <<>>

\* C22: node_name_match maps the uuid of a node only to the uuid of a node
\* with the same name and the same group_id.
NameMatchWithinGroup ==
    call.fn = "node_name_match" =>
        \A key \in DOMAIN call.out.uuid_map :
            \E i, j \in DOMAIN call.extracted :
                /\ call.extracted[i].uuid = key
                /\ call.extracted[j].uuid = call.out.uuid_map[key]
                /\ call.extracted[i].name = call.extracted[j].name
                /\ call.extracted[i].group_id = call.extracted[j].group_id

\* C23: when a create_edge and a delete_node that ran concurrently have both
\* returned, the source and the target of every stored edge are stored
\* nodes.
ConcurrentCallsKeepIntegrity ==
    tasks.create_edge.pc = "done" /\ tasks.delete_node.pc = "done" =>
        \A id \in DOMAIN edges :
            /\ edges[id].source_id \in DOMAIN nodes
            /\ edges[id].target_id \in DOMAIN nodes

\* C24: the removal of an expired entry, by get or by the sweep, never
\* deletes an entry that is not expired, such as one that set has written
\* since the removal began.
RemovalSparesFresh == ~expiry.fresh

\* C26: the futures in flight in all semaphore_gather calls together are
\* never more than the configured limit.
InFlightWithinLimit ==
    gather[1].running + gather[2].running <= semaphore_limit

\* C25: generate_response calls the provider at most 1 + max_retries times,
\* whatever the provider answers; after that many calls it has returned, and
\* what it returns is a response or an error.
GenerateResponseBounded ==
    /\ Len(llm.calls) <= 1 + MaxRetries
    /\ Len(llm.calls) = 1 + MaxRetries => llm.pc = "done"
    /\ llm.pc = "done" => llm.result # None

\* every attempt failed with an error that is retried: the last error is
\* returned after 1 + max_retries calls
RetriesExhausted ==
    /\ llm.pc = "done"
    /\ Len(llm.calls) = 1 + MaxRetries
    /\ \A i \in DOMAIN llm.calls : llm.calls[i] \in {"Http", "NetworkError", "EmptyResponse", "Authentication"}
    /\ llm.result # Some("Ok")

\* C27: the query text that build_node_fulltext_query and
\* episode_fulltext_search send to the index is fulltext_query of the raw
\* query and the group ids: the query is sanitized once.
SanitizedOnce ==
    call.fn \in {"build_node_fulltext_query", "episode_fulltext_search"}
    /\ call.sent
        => call.query_text = fulltext_query(call.query, call.group_ids)

\* C28: on the in-memory store update_node and delete_node of an id that is
\* no stored node, update_edge and delete_edge of an id that is no stored
\* edge, and create_edge with a missing source or target node return
\* NotFound, and a call that returns NotFound leaves the stored nodes and
\* edges as they were.
NotFoundLeavesStore ==
    [][lastOp'.op \in {"update_node", "delete_node", "update_edge",
                       "delete_edge", "create_edge"} =>
          /\ lastOp'.op \in {"update_node", "delete_node"}
             /\ lastOp'.id \notin DOMAIN nodes => lastOp'.res = "NotFound"
          /\ lastOp'.op \in {"update_edge", "delete_edge"}
             /\ lastOp'.id \notin DOMAIN edges => lastOp'.res = "NotFound"
          /\ lastOp'.op = "create_edge" /\ lastOp'.res # "NotFound" =>
                /\ lastOp'.id \in DOMAIN edges'
                /\ edges'[lastOp'.id].source_id \in DOMAIN nodes
                /\ edges'[lastOp'.id].target_id \in DOMAIN nodes
          /\ lastOp'.res = "NotFound" => nodes' = nodes /\ edges' = edges]_vars

\* a call on a store that holds a node and an edge has returned NotFound
NotFoundOnFilledStore ==
    /\ lastOp.res = "NotFound"
    /\ lastOp.op \in {"update_node", "delete_node", "update_edge",
                      "delete_edge", "create_edge"}
    /\ DOMAIN nodes # {}
    /\ DOMAIN edges # {}

\* C29: the graph that cleanup_graph_data returns for a graph and its
\* validation report validates cleanly: no orphaned edge, no self-loop and
\* no duplicate node name is reported for it.
CleanedGraphIsValid ==
    call.fn = "cleanup_graph_data" => is_valid(call.out_report)

\* a string with one backslash put before each of its special characters
RECURSIVE EscapedOnce(_)
EscapedOnce(query) ==
    IF query = <<>> THEN <<>>
    ELSE (IF \E i \in DOMAIN special_chars : special_chars[i] = Head(query)
          THEN <<"\\", Head(query)>> ELSE <<Head(query)>>)
         \o EscapedOnce(Tail(query))

\* C30: helpers::lucene_sanitize returns its input with every character of
\* its special list preceded by exactly one backslash and every other
\* character unchanged.
EachSpecialEscapedOnce ==
    call.fn = "helpers::lucene_sanitize" => call.out = EscapedOnce(call.query)

=============================================================================
